---- MODULE Spec2Model ----
(***************************************************************************)
(* stocproc: the process engines of src/stocproc/stocproc.py               *)
(*   _absStocProc, StocProc_KLE, StocProc_KLE_tol, StocProc_FFT_tol.       *)
(*                                                                         *)
(* Numbers.  A complex number is a pair <<re, im>> of integers (Gaussian   *)
(* integers), so that products, conjugates and the length-1/2/4 discrete   *)
(* Fourier transform are exact.  Times are integer ticks.                  *)
(* Python values.  None, and an attribute an object does not have, are the *)
(* empty tuple <<>>; a present value v of such a slot is <<v>>.            *)
(***************************************************************************)
EXTENDS Integers, Sequences, FiniteSets, TLC

VARIABLES
    obj,      \* the attributes of the engine object (its __dict__)
    rng,      \* state of numpy's process-wide random stream
    last,     \* the most recent call on an engine and how it ended
    pc,       \* StocProc_KLE_tol._auto_grid_points: position in the search
    c,        \* ... its local c
    err,      \* ... its local err
    c_low,    \* ... its local c_low  (<<>> before line 344)
    c_high,   \* ... its local c_high (<<>> before line 345)
    built,    \* ... the candidate the object was last initialised for
    errf,     \* ... the reconstruction error of every candidate c (input)
    evals     \* ... parity of the number of candidates evaluated so far

engineVars == <<obj, rng, last>>
searchVars == <<pc, c, err, c_low, c_high, built, errf, evals>>
vars       == <<obj, rng, last, pc, c, err, c_low, c_high, built, errf, evals>>

----------------------------------------------------------------------------
(* Bounds of the model *)

MaxYLen   == 2   \* longest caller-supplied vector y
MaxModes  == 2   \* most KLE modes retained by the eigenvalue floor
MaxSeed   == 0   \* largest seed a caller passes
MaxProc   == 2   \* most new_process calls made on one engine
RngPeriod == 2   \* period of the modelled random stream
MaxC      == 8   \* largest candidate c whose error is an input
MaxErr    == 1   \* error levels 0..MaxErr
MaxGrid   == 3   \* most points of the time grid of a KLE engine

(* Program constants *)
DefaultK  == 3   \* k=3, the spline degree
StartC    == 2   \* c = 2
DefaultNgFac == 4 \* ng_fac=4
Tol       == 0   \* self.tol, on the scale of error levels

None    == <<>>

Min(a, b) == IF a < b THEN a ELSE b

----------------------------------------------------------------------------
(* Complex arithmetic on <<re, im>> *)

CAdd(a, b)  == <<a[1] + b[1], a[2] + b[2]>>
CMul(a, b)  == <<a[1] * b[1] - a[2] * b[2], a[1] * b[2] + a[2] * b[1]>>
CConj(a)    == <<a[1], -a[2]>>

RECURSIVE CSum(_)
CSum(s) == IF s = <<>> THEN <<0, 0>> ELSE CAdd(Head(s), CSum(Tail(s)))

\* (-i)^n : exp(-1j * n * pi/2)
MinusIPow(n) ==
    CASE n % 4 = 0 -> <<1, 0>>
      [] n % 4 = 1 -> <<0, -1>>
      [] n % 4 = 2 -> <<-1, 0>>
      [] OTHER     -> <<0, 1>>

----------------------------------------------------------------------------
(* numpy *)

\* np.linspace(0, t_max, n); the configurations make every division exact
linspace(t_max, n) ==
    [i \in 1..n |-> IF n = 1 THEN 0 ELSE ((i - 1) * t_max) \div (n - 1)]

\* a * b on 1-d arrays with broadcasting: equal lengths, or one of length 1.
\* The result is <<"ok", array>> or <<"ValueError">>.
Broadcast(a, b) ==
    CASE Len(a) = Len(b) -> <<"ok", [i \in 1..Len(a) |-> CMul(a[i], b[i])]>>
      [] Len(a) = 1      -> <<"ok", [i \in 1..Len(b) |-> CMul(a[1], b[i])]>>
      [] Len(b) = 1      -> <<"ok", [i \in 1..Len(a) |-> CMul(a[i], b[1])]>>
      [] OTHER           -> <<"ValueError">>

\* np.tensordot(y, M, axes=([0],[1])) for 1-d y and 2-d M (a sequence of rows):
\* the contracted dimensions must be equal, there is no broadcasting.
tensordot(y, M) ==
    IF \E i \in 1..Len(M) : Len(M[i]) # Len(y)
    THEN <<"ValueError">>
    ELSE <<"ok", [i \in 1..Len(M) |->
                    CSum([j \in 1..Len(y) |-> CMul(y[j], M[i][j])])]>>

\* np.fft.fft(x) for len(x) in {1, 2, 4}: X[k] = sum_n x[n] exp(-2 pi i k n / N);
\* an empty input raises ValueError.
fft(x) ==
    IF Len(x) = 0 THEN <<"ValueError">>
    ELSE LET N == Len(x)
         IN  <<"ok", [k \in 1..N |->
                 CSum([n \in 1..N |->
                     CMul(x[n], MinusIPow((4 \div N) * (k - 1) * (n - 1)))])]>>

\* a[0:n]
Slice(a, n) == [i \in 1..Min(n, Len(a)) |-> a[i]]

\* np.random.seed(seed) when seed is not None
SeedStream(stream, seed) ==
    IF seed # None THEN seed[1] % RngPeriod ELSE stream

\* np.random.normal(size=n): the n samples drawn from the stream in state s
\* (sample i is the stream's state after i-1 draws), and the state afterwards
NormalSamples(s, n) == [i \in 1..n |-> (s + i - 1) % RngPeriod]
StreamAfter(s, n)   == (s + n) % RngPeriod

\* .view(np.complex): consecutive pairs of reals become one complex number
ViewComplex(x) == [i \in 1..(Len(x) \div 2) |-> <<x[2 * i - 1], x[2 * i]>>]

\* np.sqrt on the perfect squares the model uses
Isqrt(x) == CHOOSE r \in 0..x : r * r <= x /\ (r + 1) * (r + 1) > x

----------------------------------------------------------------------------
(* Inputs of the constructors *)

TUnit == 1                \* ticks per quarter of the time axis
TMax  == 4 * TUnit        \* t_max, the caller's time horizon

\* the caller's auto correlation function, on a lag of tau >= 0 ticks
r_tau(tau) == <<TMax - tau, tau>>

\* the caller's spectral density at the n-th frequency sample
spectral_density(n) == n * n

\* An engine object before any constructor ran.  Every attribute is a
\* slot: <<>> while the object lacks it (or holds None), <<v>> otherwise.
\* cfg, origin, realized : the constructor arguments, how the object was
\* made, and whether a new_process call on it has returned normally
\* (bookkeeping of the model, not attributes of the program).
Blank ==
    [cls |-> "absent", origin |-> "absent", cfg |-> None, realized |-> FALSE,
     A |-> None, alpha_k |-> None, ng_fac |-> None, kle_interp |-> None,
     num_y |-> None, key |-> None, s |-> None, w |-> None,
     eig_val |-> None, eig_vec |-> None, sqrt_eig_val |-> None,
     yl |-> None, omega_min_correction |-> None,
     t_max |-> None, num_grid_points |-> None, t |-> None,
     z |-> None, interpolator |-> None, k |-> None, seed |-> None,
     proc_cnt |-> None]

----------------------------------------------------------------------------
(* class _absStocProc *)

abs_init(self, t_max, num_grid_points, seed, k) ==
    [self EXCEPT !.t_max = <<t_max>>,
                 !.num_grid_points = <<num_grid_points>>,
                 !.t = <<linspace(t_max, num_grid_points)>>,
                 !.z = None,
                 !.interpolator = None,
                 !.k = <<k>>,
                 !.seed = seed,
                 !.proc_cnt = <<0>>]

\* ComplexInterpolatedUnivariateSpline(x, y, k): one spline through the real
\* parts and one through the imaginary parts of the data
Spline(x, y, k) ==
    [x  |-> x,
     re |-> [i \in 1..Len(y) |-> y[i][1]],
     im |-> [i \in 1..Len(y) |-> y[i][2]]]

\* interpolator(t) at a node t of its grid: an interpolating spline passes
\* through its data
SplineAt(sp, t) ==
    LET i == CHOOSE j \in 1..Len(sp.x) : sp.x[j] = t
    IN  <<sp.re[i], sp.im[i]>>

get_time(self) == self.t

get_z(self) == self.z

----------------------------------------------------------------------------
(* class StocProc_KLE *)

calc_corr_min_t_plus_t(s) ==
    LET n          == Len(s)
        bcf_n_plus == [i \in 1..n |-> r_tau(s[i] - s[1])]
    IN  [k \in 1..(2 * n - 1) |->
            IF k < n THEN CConj(bcf_n_plus[n - k + 1])
                     ELSE bcf_n_plus[k - n + 1]]

\* mutant: the columns are filled from the mirrored offset, r[:,i] =
\* bcf_n[i:i+n_], which builds the transposed matrix
calc_corr_matrix_mirrored(s) ==
    LET n_    == Len(s)
        bcf_n == calc_corr_min_t_plus_t(s)
    IN  [row \in 1..n_ |-> [col \in 1..n_ |-> bcf_n[n_ - row + col]]]

calc_corr_matrix(s) ==
    LET n_    == Len(s)
        bcf_n == calc_corr_min_t_plus_t(s)
    IN  [row \in 1..n_ |-> [col \in 1..n_ |-> bcf_n[n_ - col + row]]]

\* method_kle.get_mid_point_weights_times
get_mid_point_weights_times(t_max, ng) ==
    [t |-> linspace(t_max, ng), w |-> [i \in 1..ng |-> t_max \div ng]]

\* method_kle.solve_hom_fredholm: the eigenpairs that pass the eigenvalue
\* floor.  The dense solver is outside the model: m pairs are retained, every
\* retained eigenvalue is 1 and the eigenvectors are the first m columns of r.
solve_hom_fredholm(r, w, m) ==
    [eig_val |-> [j \in 1..Min(m, Len(r)) |-> 1],
     eig_vec |-> [i \in 1..Len(r) |-> [j \in 1..Min(m, Len(r)) |-> r[i][j]]]]

KLE_setstate(self, state) ==
    LET A       == state[1]
        alpha_k == state[2]
        seed    == state[3]
        k       == state[4]
        t_max   == state[5]
        ng_fac  == state[6]
        num_gp  == Len(A)
        num_y   == Len(A[1])
        ng_fine == ng_fac * (num_gp - 1) + 1
    IN  abs_init([self EXCEPT !.cls = "KLE",
                              !.A = <<A>>,
                              !.alpha_k = <<alpha_k>>,
                              !.ng_fac = <<ng_fac>>,
                              !.kle_interp = <<ng_fac # 1>>,
                              !.num_y = <<num_y>>],
                 t_max, ng_fine, seed, k)

\* mutant: t_max and ng_fac exported in the wrong order
KLE_getstate_swapped(self) ==
    <<self.A[1], self.alpha_k[1], self.seed, self.k[1], self.ng_fac[1],
      self.t_max[1]>>

KLE_getstate(self) ==
    <<self.A[1], self.alpha_k[1], self.seed, self.k[1], self.t_max[1],
      self.ng_fac[1]>>

\* StocProc_KLE.__init__; sig_min reaches the model as m, the number of
\* eigenvalues that pass the floor; align_eig_vec keeps its default, False
KLE_init(self, t_max, ng_fredholm, ng_fac, seed, m, k) ==
    LET tw      == get_mid_point_weights_times(t_max, ng_fredholm)
        r       == calc_corr_matrix(tw.t)
        eig     == solve_hom_fredholm(r, tw.w, m)
        _sqrt_eig_val == [j \in 1..Len(eig.eig_val) |-> Isqrt(eig.eig_val[j])]
        _A      == [i \in 1..Len(r) |-> [j \in 1..Len(_sqrt_eig_val) |->
                      <<(tw.w[i] * eig.eig_vec[i][j][1]) \div _sqrt_eig_val[j],
                        (tw.w[i] * eig.eig_vec[i][j][2]) \div _sqrt_eig_val[j]>>]]
        ng_fine == ng_fac * (ng_fredholm - 1) + 1
        alpha_k == calc_corr_min_t_plus_t(linspace(t_max, ng_fine))
        data    == <<_A, alpha_k, seed, k, t_max, ng_fac>>
    IN  [KLE_setstate(self, data) EXCEPT
            !.key = <<<<t_max, ng_fredholm, ng_fac, m>>>>,
            !.s = <<tw.t>>,
            !.w = <<tw.w>>,
            !.eig_val = <<eig.eig_val>>,
            !.eig_vec = <<eig.eig_vec>>]

\* stocproc_c.z_t: the fine-grid value at index j sums, over the coarse nodes
\* i, alpha_k at the lag between fine time j and coarse time i times a_tmp[i]
z_t(delta_t_fac, N1, alpha_k, a_tmp) ==
    LET N2 == delta_t_fac * (N1 - 1) + 1
    IN  [j \in 1..N2 |->
            CSum([i \in 1..N1 |->
                CMul(alpha_k[(j - 1) - delta_t_fac * (i - 1) + N2], a_tmp[i])])]

\* StocProc_KLE._calc_z: <<"ok", z>> or the exception it raises
KLE_calc_z(self, y) ==
    IF self.kle_interp[1]
    THEN LET _a_tmp == tensordot(y, self.A[1])
         IN  IF _a_tmp[1] # "ok" THEN _a_tmp
             ELSE <<"ok", z_t(self.ng_fac[1], Len(self.A[1]),
                              self.alpha_k[1], _a_tmp[2])>>
    ELSE IF self.sqrt_eig_val = None \/ self.eig_vec = None
         THEN <<"AttributeError">>
         ELSE LET ys == Broadcast(y, [j \in 1..Len(self.sqrt_eig_val[1]) |->
                                        <<self.sqrt_eig_val[1][j], 0>>])
              IN  IF ys[1] # "ok" THEN ys
                  ELSE tensordot(ys[2], self.eig_vec[1])

----------------------------------------------------------------------------
(* class StocProc_FFT_tol *)

\* StocProc_FFT_tol.__init__ after the boundary and step search returned
\* (a, b, N, dx, dt): dt in ticks, and a + dx/2 = q quarter turns per tick
FFT_init(self, t_max_in, N, dt, q, seed, k) ==
    LET num_grid_points == (t_max_in + dt - 1) \div dt + 1
        t_max == (num_grid_points - 1) * dt
        base  == abs_init([self EXCEPT !.cls = "FFT"],
                          t_max, num_grid_points, seed, k)
    IN  [base EXCEPT
            !.yl = <<[n \in 1..N |-> <<Isqrt(spectral_density(n)), 0>>]>>,
            !.omega_min_correction =
                <<[j \in 1..num_grid_points |-> MinusIPow(q * base.t[1][j])]>>]

FFT_getstate(self) ==
    <<self.yl[1], self.num_grid_points[1], self.omega_min_correction[1],
      self.t_max[1], self.seed, self.k[1]>>

FFT_setstate(self, state) ==
    abs_init([self EXCEPT !.cls = "FFT",
                          !.yl = <<state[1]>>,
                          !.omega_min_correction = <<state[3]>>],
             state[4], state[2], state[5], state[6])

\* StocProc_FFT_tol._calc_z: <<"ok", z>> or the exception it raises
FFT_calc_z(self, y) ==
    LET prod == Broadcast(self.yl[1], y)
    IN  IF prod[1] # "ok" THEN prod
        ELSE LET f == fft(prod[2])
             IN  IF f[1] # "ok" THEN f
                 ELSE Broadcast(Slice(f[2], self.num_grid_points[1]),
                                self.omega_min_correction[1])

----------------------------------------------------------------------------
(* the process interface, on either class *)

get_num_y(self) ==
    IF self.cls = "KLE" THEN self.num_y[1] ELSE Len(self.yl[1])

calc_z(self, y) ==
    IF self.cls = "KLE" THEN KLE_calc_z(self, y) ELSE FFT_calc_z(self, y)

getstate(self) ==
    IF self.cls = "KLE" THEN KLE_getstate(self) ELSE FFT_getstate(self)

setstate(self, cls, state) ==
    IF cls = "KLE" THEN KLE_setstate(self, state) ELSE FFT_setstate(self, state)

\* mutant: the supplied y is ignored, the samples are always drawn
input_y_always_drawn(self, stream, y) ==
    ViewComplex(NormalSamples(stream, 2 * get_num_y(self)))

\* mutant: size = num_y, not 2*num_y, real samples are drawn
input_y_half(self, stream, y) ==
    IF y = None
    THEN ViewComplex(NormalSamples(stream, get_num_y(self)))
    ELSE y[1]

\* the y that new_process passes to _calc_z: the caller's, or, when y is
\* None, 2*num_y normal samples viewed as num_y complex numbers
input_y(self, stream, y) ==
    IF y = None
    THEN ViewComplex(NormalSamples(stream, 2 * get_num_y(self)))
    ELSE y[1]

\* mutant: the cached interpolator is not cleared
new_process_keeps_interpolator(self, stream, y, seed) ==
    LET self1   == [self EXCEPT !.proc_cnt = <<@[1] + 1>>]
        stream1 == SeedStream(stream, seed)
        yy      == input_y(self1, stream1, y)
        stream2 == IF y = None
                   THEN StreamAfter(stream1, 2 * get_num_y(self1))
                   ELSE stream1
        res     == calc_z(self1, yy)
    IN  [obj     |-> IF res[1] = "ok" THEN [self1 EXCEPT !.z = <<res[2]>>]
                                      ELSE self1,
         rng     |-> stream2,
         outcome |-> res[1],
         y       |-> yy]

\* mutant: the FFT engine multiplies its samples by y in place (yl *= y)
new_process_in_place(self, stream, y, seed) ==
    LET self1   == [self EXCEPT !.interpolator = None,
                                !.proc_cnt = <<@[1] + 1>>]
        stream1 == SeedStream(stream, seed)
        yy      == input_y(self1, stream1, y)
        stream2 == IF y = None
                   THEN StreamAfter(stream1, 2 * get_num_y(self1))
                   ELSE stream1
        res     == calc_z(self1, yy)
    IN  [obj     |-> IF res[1] = "ok"
                     THEN [self1 EXCEPT
                             !.z = <<res[2]>>,
                             !.yl = IF self.cls = "FFT"
                                    THEN <<Broadcast(self.yl[1], yy)[2]>>
                                    ELSE @]
                     ELSE self1,
         rng     |-> stream2,
         outcome |-> res[1],
         y       |-> yy]

\* _absStocProc.new_process(y, seed) on object self with the random stream in
\* state stream: the object and the stream afterwards, how the call ended
\* ("ok" or the exception raised) and the vector handed to _calc_z
new_process(self, stream, y, seed) ==
    LET self1   == [self EXCEPT !.interpolator = None,
                                !.proc_cnt = <<@[1] + 1>>]
        stream1 == SeedStream(stream, seed)
        yy      == input_y(self1, stream1, y)
        stream2 == IF y = None
                   THEN StreamAfter(stream1, 2 * get_num_y(self1))
                   ELSE stream1
        res     == calc_z(self1, yy)
    IN  [obj     |-> IF res[1] = "ok" THEN [self1 EXCEPT !.z = <<res[2]>>]
                                      ELSE self1,
         rng     |-> stream2,
         outcome |-> res[1],
         y       |-> yy]

\* mutant: the check for a missing realization is made only when t is given
call_checks_late(self, t) ==
    IF t = None
    THEN [obj |-> self, outcome |-> "ok", ret |-> self.z]
    ELSE IF self.z = None
         THEN [obj |-> self, outcome |-> "RuntimeError", ret |-> None]
         ELSE LET self1 == IF self.interpolator = None
                           THEN [self EXCEPT !.interpolator =
                                    <<Spline(self.t[1], self.z[1], self.k[1])>>]
                           ELSE self
              IN  [obj     |-> self1,
                   outcome |-> "ok",
                   ret     |-> <<SplineAt(self1.interpolator[1], t[1])>>]

\* _absStocProc.__call__(t): t is None (<<>>) or <<a time of the grid>>
call(self, t) ==
    IF self.z = None
    THEN [obj |-> self, outcome |-> "RuntimeError", ret |-> None]
    ELSE IF t = None
         THEN [obj |-> self, outcome |-> "ok", ret |-> self.z]
         ELSE LET self1 == IF self.interpolator = None
                           THEN [self EXCEPT !.interpolator =
                                    <<Spline(self.t[1], self.z[1], self.k[1])>>]
                           ELSE self
              IN  [obj     |-> self1,
                   outcome |-> "ok",
                   ret     |-> <<SplineAt(self1.interpolator[1], t[1])>>]

----------------------------------------------------------------------------
(* What the callers do *)

YVals == {<<1, 0>>, <<0, 1>>}
YSet  == UNION {[1..n -> YVals] : n \in 0..MaxYLen}
YArgs == {None} \cup {<<v>> : v \in YSet}
Seeds == {None} \cup {<<n>> : n \in 0..MaxSeed}

\* constructor arguments
KLEConfigs ==
    {k \in [cls : {"KLE"}, ng_fredholm : {2, 3}, ng_fac : {1, 2},
            m : 1..MaxModes, seed : {None, <<0>>}] :
        k.ng_fac * (k.ng_fredholm - 1) + 1 <= MaxGrid}
\* method_fft.calc_ab_N_dx_dt: the (N, dt, a + dx/2) the step search can
\* return.  N is a power of two and dt = 2 pi / (dx N); the two error criteria
\* bound dt from above, nothing bounds N dt from below: the time step may be a
\* whole or a half of the horizon
calc_ab_N_dx_dt == [N : {2}, dt : {TMax, TMax \div 2}, q : {1}]

FFTConfigs ==
    {[cls |-> "FFT", N |-> r.N, dt |-> r.dt, q |-> r.q, seed |-> sd] :
        r \in calc_ab_N_dx_dt, sd \in {None, <<0>>}}
Configs == KLEConfigs \cup FFTConfigs

construct(cfg) ==
    [(IF cfg.cls = "KLE"
      THEN KLE_init(Blank, TMax, cfg.ng_fredholm, cfg.ng_fac, cfg.seed, cfg.m,
                    DefaultK)
      ELSE FFT_init(Blank, TMax, cfg.N, cfg.dt, cfg.q, cfg.seed, DefaultK))
     EXCEPT !.origin = "init", !.cfg = <<cfg>>]

\* pickle.loads(pickle.dumps(src)): a new object of the same class, then
\* __setstate__ of what src.__getstate__() returned
restore(src) ==
    [setstate(Blank, src.cls, getstate(src))
     EXCEPT !.origin = "setstate", !.cfg = src.cfg]

NoCall == [op |-> "none", outcome |-> "none", y |-> None,
           supplied |-> FALSE, t |-> None, ret |-> None]

Construct(cfg) ==
    /\ UNCHANGED searchVars
    /\ obj.cls = "absent"
    /\ obj' = construct(cfg)
    /\ rng' = SeedStream(rng, cfg.seed)
    /\ last' = [NoCall EXCEPT !.op = "init", !.outcome = "ok"]

\* the caller replaces the engine by its restored snapshot
Restore ==
    /\ UNCHANGED searchVars
    /\ obj.cls # "absent"
    /\ obj' = restore(obj)
    /\ rng' = SeedStream(rng, obj.seed)
    /\ last' = [NoCall EXCEPT !.op = "setstate", !.outcome = "ok"]

NewProcess(y, seed) ==
    /\ UNCHANGED searchVars
    /\ obj.cls # "absent"
    /\ obj.proc_cnt[1] < MaxProc
    /\ LET r == new_process(obj, rng, y, seed)
       IN  /\ obj' = [r.obj EXCEPT !.realized = @ \/ (r.outcome = "ok")]
           /\ rng' = r.rng
           /\ last' = [NoCall EXCEPT !.op = "new_process",
                                     !.outcome = r.outcome, !.y = <<r.y>>,
                                     !.supplied = (y # None)]

Call(t) ==
    /\ UNCHANGED searchVars
    /\ obj.cls # "absent"
    /\ LET r == call(obj, t)
       IN  /\ obj' = r.obj
           /\ rng' = rng
           /\ last' = [NoCall EXCEPT !.op = "call", !.outcome = r.outcome,
                                     !.t = t, !.ret = r.ret]

\* the times a caller evaluates at: None, or a node of the engine's grid
CallTimes ==
    IF obj.cls = "absent" THEN {}
    ELSE {None} \cup {<<obj.t[1][i]>> : i \in 1..Len(obj.t[1])}

SearchIdle ==
    /\ pc = "idle" /\ c = 0 /\ err = 0 /\ c_low = None /\ c_high = None
    /\ built = None /\ errf = <<>> /\ evals = 0

Init ==
    /\ obj = Blank
    /\ rng \in 0..(RngPeriod - 1)
    /\ last = NoCall
    /\ SearchIdle

\* An engine is constructed; then any sequence of new_process, evaluate and
\* snapshot round trips
Next ==
    \/ \E cfg \in Configs : Construct(cfg)
    \/ Restore
    \/ \E y \in YArgs, seed \in Seeds : NewProcess(y, seed)
    \/ \E t \in CallTimes : Call(t)

Spec == Init /\ [][Next]_vars

----------------------------------------------------------------------------
(* class StocProc_KLE_tol: the search for the coarse grid size *)

\* err = np.inf
ErrInf == MaxErr + 1

\* the error of a candidate whose error ratio is 0/0 at some lag: np.abs(..)/
\* np.abs(refc_bcf) is nan there (numpy warns, it does not raise) and np.max
\* of an array holding a nan is nan
NaN == MaxErr + 2

\* a > b on floats: False when either side is nan
GreaterThan(a, b) == a # NaN /\ b # NaN /\ a > b

\* c = MaxC + 1 stands for every candidate beyond the largest one whose
\* error is an input; the error of those candidates never drops to tol
Beyond == MaxC + 1
Cand(n) == IF n > MaxC THEN Beyond ELSE n

\* _init_StocProc_KLE_and_get_error(ng): StocProc_KLE.__init__ with
\* ng_fredholm = ng leaves an object with ng coarse nodes (rows of A) and
\* ng_fac*(ng-1)+1 grid points, a lag vector alpha_k over twice that grid,
\* and returns the reconstruction error measured for it
init_StocProc_KLE_and_get_error(ng, ng_fac) ==
    LET cand    == (ng - 1) \div 2
        ng_fine == ng_fac * (ng - 1) + 1
    IN  [c               |-> cand,
         num_gp          |-> ng,
         num_grid_points |-> ng_fine,
         len_alpha_k     |-> 2 * ng_fine - 1,
         err             |-> IF cand > MaxC THEN MaxErr ELSE errf[cand]]

\* while err > self.tol: c *= 2; ng = 2*c + 1; err = ...
Double ==
    /\ UNCHANGED engineVars
    /\ pc = "double"
    /\ GreaterThan(err, Tol)
    /\ LET c1 == Cand(c * 2)
           b  == init_StocProc_KLE_and_get_error(2 * c1 + 1, DefaultNgFac)
       IN  /\ c' = c1
           /\ built' = <<b>>
           /\ err' = b.err
    /\ evals' = 1 - evals
    /\ UNCHANGED <<pc, c_low, c_high, errf>>

\* c_low = c // 2; c_high = c
DoubleExit ==
    /\ UNCHANGED engineVars
    /\ pc = "double"
    /\ ~GreaterThan(err, Tol)
    /\ c_low' = <<c \div 2>>
    /\ c_high' = <<c>>
    /\ pc' = "bisect"
    /\ UNCHANGED <<c, err, built, errf, evals>>

\* while (c_high - c_low) > 1: c = (c_low + c_high) // 2; ...
Bisect ==
    /\ UNCHANGED engineVars
    /\ pc = "bisect"
    /\ (c_high[1] - c_low[1]) > 1
    /\ LET c1 == (c_low[1] + c_high[1]) \div 2
           b  == init_StocProc_KLE_and_get_error(2 * c1 + 1, DefaultNgFac)
       IN  /\ c' = c1
           /\ built' = <<b>>
           /\ err' = b.err
           /\ IF GreaterThan(b.err, Tol)
              THEN c_low' = <<c1>> /\ c_high' = c_high
              ELSE c_high' = <<c1>> /\ c_low' = c_low
    /\ evals' = 1 - evals
    /\ UNCHANGED <<pc, errf>>

BisectExit ==
    /\ UNCHANGED engineVars
    /\ pc = "bisect"
    /\ ~((c_high[1] - c_low[1]) > 1)
    /\ pc' = "done"
    /\ UNCHANGED <<c, err, c_low, c_high, built, errf, evals>>

\* _auto_grid_points is entered: err = np.inf; c = 2
SearchInit ==
    /\ obj = Blank /\ rng = 0 /\ last = NoCall
    /\ pc = "double"
    /\ c = StartC
    /\ err = ErrInf
    /\ c_low = None /\ c_high = None
    /\ built = None
    /\ errf \in [1..MaxC -> 0..MaxErr]
    /\ evals = 0

SearchNext ==
    \/ Double
    \/ DoubleExit
    \/ Bisect
    \/ BisectExit

SearchSpec == SearchInit /\ [][SearchNext]_vars

\* the search is one sequential call: it takes its next step whenever it has one
FairSearchSpec == SearchSpec /\ WF_vars(SearchNext)

\* _auto_grid_points is entered for a correlation function whose reference
\* value vanishes at some lag of some candidates: their error is nan
NanSearchInit ==
    /\ obj = Blank /\ rng = 0 /\ last = NoCall
    /\ pc = "double"
    /\ c = StartC
    /\ err = ErrInf
    /\ c_low = None /\ c_high = None
    /\ built = None
    /\ errf \in [1..MaxC -> (0..MaxErr) \cup {NaN}]
    /\ evals = 0

NanSearchSpec == NanSearchInit /\ [][SearchNext]_vars

----------------------------------------------------------------------------
(* Properties of the search, under SearchSpec / FairSearchSpec *)

\* C1: when _auto_grid_points returns, the object holds the state built for
\* a candidate whose measured error was <= tol (the last candidate
\* constructed is never a failing one).
C1_LastBuiltMeetsTol ==
    pc = "done" => built[1].err <= Tol

\* the error is non-increasing in c
Monotone == \A a, b \in 1..MaxC : a < b => errf[a] >= errf[b]

\* C2: for a non-increasing error, the final c_high is the smallest positive
\* c whose error is <= tol: it meets tol and no smaller c (1, 2, 3, ...) does.
C2_SelectsSmallest ==
    (pc = "done" /\ Monotone) =>
        /\ errf[c_high[1]] <= Tol
        /\ \A k \in 1..(c_high[1] - 1) : errf[k] > Tol

\* C3: the search terminates for every error function, also one that never
\* drops to tol.
C3_SearchTerminates == <>(pc = "done")

\* C13: the first candidate the doubling phase evaluates is c = 2; at the
\* start of and throughout the bisection c_low < c_high, the error of c_high
\* is <= tol and the error of c_low is > tol; and the bisection stops exactly
\* when c_high - c_low = 1.
C13_BracketInvariant ==
    [][/\ (built = None /\ built' # None) => built'[1].c = StartC
       /\ (pc' \in {"bisect", "done"}) =>
             /\ c_low'[1] < c_high'[1]
             /\ errf[c_high'[1]] <= Tol
             /\ errf[c_low'[1]] > Tol
             /\ (pc' = "done") <=> (c_high'[1] - c_low'[1] = 1)]_vars

\* C11: a candidate whose error is undefined (nan, from a division by a
\* reference value that is zero) is never treated as meeting the tolerance:
\* it never becomes the upper end c_high of the bracket, and the search never
\* returns with it selected.
C11_UndefinedErrorNotSelected ==
    (pc \in {"bisect", "done"}) => errf[c_high[1]] # NaN

----------------------------------------------------------------------------
(* Properties of the engines, under Spec *)

Stored == obj.cls # "absent"

\* index of grid time t in the engine's grid
NodeOf(t) == CHOOSE i \in 1..Len(obj.t[1]) : obj.t[1][i] = t

\* C4: while no new_process call on the engine has succeeded, get_z() is
\* None, no interpolator exists, and an evaluation (t given or omitted) ends
\* in the not-ready error without returning a value.
C4_NotReady ==
    (Stored /\ ~obj.realized) =>
        /\ get_z(obj) = None
        /\ obj.interpolator = None
        /\ last.op = "call" => (last.outcome = "RuntimeError" /\ last.ret = None)

C4_Witness ==
    /\ Stored /\ ~obj.realized
    /\ last.op = "call" /\ last.t # None
    /\ obj.proc_cnt[1] > 0

\* C5: new_process(y) with a supplied y whose length differs from
\* get_num_y() fails and stores no realization.
C5_WrongLengthRejected ==
    (last.op = "new_process" /\ last.supplied
        /\ Len(last.y[1]) # get_num_y(obj)) => last.outcome # "ok"

\* C6: a cached interpolator was built from the current realization, and an
\* evaluation at a grid point returns the stored Z at that point.
C6_InterpolatorIsCurrent ==
    /\ (Stored /\ obj.interpolator # None) =>
          /\ obj.z # None
          /\ obj.interpolator[1] = Spline(obj.t[1], obj.z[1], obj.k[1])
    /\ (last.op = "call" /\ last.outcome = "ok" /\ last.t # None) =>
          last.ret = <<obj.z[1][NodeOf(last.t[1])]>>

C6_Witness ==
    /\ Stored /\ obj.interpolator # None
    /\ obj.proc_cnt[1] = MaxProc
    /\ last.op = "call" /\ last.t # None

\* what an engine freshly built from the same constructor arguments holds
\* after new_process(y=Y), with the random stream in state s
TwinZ(Y, s) == new_process(construct(obj.cfg[1]), s, <<Y>>, None).obj.z

\* C7 as stated: after new_process(y=Y) the engine holds the same Z as any
\* engine of identical configuration given the same call, whatever its own
\* history and the state of the random stream.
C7_SameZAsTwin ==
    (last.op = "new_process" /\ last.supplied) =>
        \A s \in 0..(RngPeriod - 1) : obj.z = TwinZ(last.y[1], s)

\* C7 amended: as C7, for a call new_process(y=Y) that returns normally.
C7_SameZAsTwinOnSuccess ==
    (last.op = "new_process" /\ last.supplied /\ last.outcome = "ok") =>
        \A s \in 0..(RngPeriod - 1) : obj.z = TwinZ(last.y[1], s)

C7_Witness ==
    /\ last.op = "new_process" /\ last.supplied /\ last.outcome = "ok"
    /\ obj.proc_cnt[1] = MaxProc
    /\ rng # 0

\* C8: the engine restored from an exported snapshot has the same time grid
\* and get_num_y(), ends every new_process(Y) as the original does (the same
\* exception, or the same Z stored), and starts with no realization and no
\* interpolator.
C8_SnapshotRoundTrip ==
    [][(Stored /\ last'.op = "setstate") =>
          /\ get_time(obj') = get_time(obj)
          /\ get_num_y(obj') = get_num_y(obj)
          /\ \A Y \in YSet :
                LET a == new_process(obj, rng, <<Y>>, None)
                    b == new_process(obj', rng', <<Y>>, None)
                IN  /\ a.outcome = b.outcome
                    /\ a.outcome = "ok" => a.obj.z = b.obj.z
          /\ get_z(obj') = None
          /\ obj'.interpolator = None]_vars

C8_Witness ==
    /\ Stored /\ obj.origin = "setstate"
    /\ last.op = "new_process" /\ last.outcome = "ok"

\* the derived state an engine is built with
Derived(o) ==
    <<o.A, o.alpha_k, o.ng_fac, o.yl, o.omega_min_correction, o.t, o.t_max,
      o.num_grid_points, get_num_y(o)>>

\* C9: get_num_y() is the number of columns of A (KLE) or the number N of
\* frequency samples (FFT), the same at every point of the engine's life,
\* and a vector generated for an omitted y has get_num_y() entries.
C9_NumY ==
    /\ (Stored /\ obj.cls = "KLE") =>
          /\ get_num_y(obj) = Len(obj.A[1][1])
          /\ get_num_y(obj) = Min(obj.cfg[1].m, obj.cfg[1].ng_fredholm)
    /\ (Stored /\ obj.cls = "FFT") => get_num_y(obj) = obj.cfg[1].N
    /\ (last.op = "new_process" /\ ~last.supplied) =>
          Len(last.y[1]) = get_num_y(obj)

C9_Witness ==
    /\ last.op = "new_process" /\ ~last.supplied
    /\ obj.proc_cnt[1] = MaxProc
    /\ get_num_y(obj) = MaxModes

\* C10 as stated: new_process and evaluate change no attribute of the engine
\* but the realization Z and the cached interpolator.
C10_OnlyZAndInterpolator ==
    [][(last'.op \in {"new_process", "call"}) =>
          [obj' EXCEPT !.z = obj.z, !.interpolator = obj.interpolator,
                       !.realized = obj.realized] = obj]_vars

\* C10 amended: new_process and evaluate leave the derived state (A, alpha_k,
\* ng_fac, yl, the phase correction, the time grid, t_max, get_num_y()) and
\* every other attribute unchanged, but for Z, the cached interpolator and
\* the call counter _proc_cnt.
C10_Frame ==
    [][(last'.op \in {"new_process", "call"}) =>
          /\ Derived(obj') = Derived(obj)
          /\ [obj' EXCEPT !.z = obj.z, !.interpolator = obj.interpolator,
                          !.proc_cnt = obj.proc_cnt,
                          !.realized = obj.realized] = obj]_vars

C10_Witness ==
    /\ last.op = "new_process" /\ last.outcome # "ok"
    /\ obj.proc_cnt[1] = MaxProc
    /\ obj.realized

\* C14: on a KLE engine with ng_fac = 1, freshly constructed or restored,
\* new_process(Y) with |Y| = get_num_y() succeeds and stores Z, so that a
\* following evaluation does not fail with the not-ready error.
C14_PlainKLESucceeds ==
    (last.op = "new_process" /\ obj.cls = "KLE" /\ obj.ng_fac[1] = 1
        /\ Len(last.y[1]) = get_num_y(obj)) =>
        /\ last.outcome = "ok"
        /\ get_z(obj) # None
        /\ call(obj, None).outcome = "ok"

\* R at a lag of either sign: R(-tau) = conj(R(tau))
RLag(lag) == IF lag >= 0 THEN r_tau(lag) ELSE CConj(r_tau(-lag))

\* C15: for the n equidistant grid points s the KLE constructor used, the
\* doubled lag vector has 2n-1 elements, element k (from 0) holding R at lag
\* (k-(n-1))*dt; entry (i,j) of the n x n matrix is the doubled-vector element
\* for lag t_i - t_j, that is R(t_i - t_j), and is the conjugate of entry
\* (j,i) when R(0) is real.  The stored alpha_k is the doubled lag vector of
\* the fine grid.
C15_CorrMatrix ==
    (Stored /\ obj.cls = "KLE" /\ obj.s # None) =>
        LET s  == obj.s[1]
            n  == Len(s)
            dt == s[2] - s[1]
            v  == calc_corr_min_t_plus_t(s)
            M  == calc_corr_matrix(s)
            nf == Len(obj.t[1])
        IN  /\ Len(v) = 2 * n - 1
            /\ \A k \in 0..(2 * n - 2) : v[k + 1] = RLag((k - (n - 1)) * dt)
            /\ Len(M) = n
            /\ \A i, j \in 1..n :
                  /\ Len(M[i]) = n
                  /\ M[i][j] = v[(n - 1) + (i - j) + 1]
                  /\ M[i][j] = RLag(s[i] - s[j])
                  /\ r_tau(0)[2] = 0 => M[i][j] = CConj(M[j][i])
            /\ Len(obj.alpha_k[1]) = 2 * nf - 1
            /\ \A k \in 0..(2 * nf - 2) :
                  obj.alpha_k[1][k + 1] =
                      RLag((k - (nf - 1)) * (obj.t[1][2] - obj.t[1][1]))

C15_Witness ==
    /\ Stored /\ obj.cls = "KLE" /\ obj.s # None
    /\ Len(obj.s[1]) = 3 /\ Len(obj.alpha_k[1]) = 5
    /\ last.op = "init"

\* C16: a new_process call that fails leaves the stored Z as it was: get_z()
\* returns the previous Z, a following evaluation at a grid point returns the
\* previous Z there (or, without a previous Z, is not ready as before), and
\* the caller can recover: new_process with some input of the right length
\* succeeds.
C16_FailureIsRecoverable ==
    [][(last'.op = "new_process" /\ last'.outcome # "ok") =>
          /\ get_z(obj') = get_z(obj)
          /\ obj'.realized = obj.realized
          /\ obj.z # None =>
                \A i \in 1..Len(obj'.t[1]) :
                    LET r == call(obj', <<obj'.t[1][i]>>)
                    IN  r.outcome = "ok" /\ r.ret = <<obj.z[1][i]>>
          /\ obj.z = None => call(obj', None).outcome = "RuntimeError"
          /\ \E Y \in YSet :
                /\ Len(Y) = get_num_y(obj')
                /\ new_process(obj', rng', <<Y>>, None).outcome = "ok"]_vars

\* C12: after every successful new_process the stored Z has one value per
\* grid point, len(Z) = len(get_time()) = num_grid_points, which for the KLE
\* engine is ng_fac*(coarse nodes - 1)+1; and every FFT engine has
\* num_grid_points <= N, so that the first num_grid_points outputs of the
\* length-N transform exist.
C12_OneValuePerGridPoint ==
    /\ (last.op = "new_process" /\ last.outcome = "ok") =>
          /\ Len(obj.z[1]) = Len(get_time(obj)[1])
          /\ Len(obj.z[1]) = obj.num_grid_points[1]
          /\ obj.cls = "KLE" =>
                obj.num_grid_points[1] =
                    obj.ng_fac[1] * (Len(obj.A[1]) - 1) + 1
    /\ (Stored /\ obj.cls = "FFT") =>
          obj.num_grid_points[1] <= Len(obj.yl[1])

====
